---- MODULE Spec2Model ----
(***************************************************************************)
(* Model of builder/frameworks/cortex_m.py: the PlatformIO build script    *)
(* that locates the device pack, the linker script, the SVD file, the      *)
(* pack's include directories and the startup / system sources, and        *)
(* registers what it found with the SCons environment.                     *)
(*                                                                         *)
(* The script runs once, top to bottom.  Its inputs are the file system    *)
(* (fs) and the board manifest (manifest); both are chosen in Init and     *)
(* never change.  A path is a sequence of path components, the file        *)
(* system is the set of its leaf entries (files or empty directories), and *)
(* a directory exists when it is a prefix of an entry.                     *)
(***************************************************************************)
EXTENDS Integers, Sequences, FiniteSets, TLC

VARIABLES
    fs,                 \* the file system: a set of paths
    manifest,           \* the board's JSON manifest, as loaded (never written)
    board,              \* env.BoardConfig(): the in-memory board configuration
    pc,                 \* the module-level statement the script is at
    error,              \* the exception that ended the script, or "none"
    pack,               \* module global `pack`
    ld_path,            \* module global `ld_path`
    svd_path,           \* module global `svd_path`
    src_found,          \* is_startup_in_src / is_system_in_src
    pack_source,        \* startup_path / system_path
    env,                \* the SCons environment: LDSCRIPT_PATH, CPPPATH, LINKFLAGS
    built,              \* the env.BuildSources calls made, in order
    stdout,             \* lines printed
    stderr,             \* lines written to sys.stderr
    searched            \* the file-system calls made: <<folder, pattern>> for a
                        \* glob, <<path, <<>>>> for Path.exists

vars == <<fs, manifest, board, pc, error, pack, ld_path, svd_path, src_found,
          pack_source, env, built, stdout, stderr, searched>>

(***************************************************************************)
(* Bounds of the explored inputs.                                          *)
(***************************************************************************)
MaxPacks == 2           \* pack directories installed under the lib roots
MaxPackFiles == 3       \* files inside a device pack
MaxProjectFiles == 2    \* files in the project's misc and src folders

(***************************************************************************)
(* Python values.                                                          *)
(***************************************************************************)
None == <<>>            \* None where a Path is expected
NoneStr == "<None>"     \* None where a str is expected

product_line == "PL"

project_path == <<"proj">>
project_misc == project_path \o <<"misc">>
project_src == project_path \o <<"src">>
lib_path_list == <<project_path \o <<"lib">>, project_path \o <<"libdeps">>>>

(***************************************************************************)
(* dict.get and BoardConfig.update.  A key the manifest does not set is    *)
(* not in the function's domain.                                           *)
(***************************************************************************)
board_get(key, default) == IF key \in DOMAIN board THEN board[key] ELSE default

board_update(key, value) ==
    [k \in DOMAIN board \cup {key} |-> IF k = key THEN value ELSE board[k]]

(***************************************************************************)
(* pathlib: exists, glob.  File names are strings; fnmatch is modelled for *)
(* the patterns the script uses: "*", "*.svd", "*.ld", the character class *)
(* "<stem>.[sS]" and literal names.                                        *)
(***************************************************************************)
Stems == {product_line, "custom", "old", "other", "boot",
          "startup_" \o product_line, "system_" \o product_line}

EndsWith(name, suffix) == \E s \in Stems : name = s \o suffix

fnmatch(name, pat) ==
    CASE pat = "*" -> TRUE
      [] pat = "*.svd" -> EndsWith(name, ".svd")
      [] pat = "*.ld" -> EndsWith(name, ".ld")
      [] \E s \in Stems : pat = s \o ".[sS]" ->
            \E s \in Stems : pat = s \o ".[sS]" /\ name \in {s \o ".s", s \o ".S"}
      [] OTHER -> name = pat

IsPrefix(p, q) == Len(p) <= Len(q) /\ SubSeq(q, 1, Len(p)) = p

exists(p) == \E e \in fs : IsPrefix(p, e)

\* Path.glob(pattern), the pattern split at "/"
glob(folder, pattern) ==
    {SubSeq(e, 1, Len(folder) + Len(pattern)) :
        e \in {f \in fs :
                 /\ IsPrefix(folder, f)
                 /\ Len(f) >= Len(folder) + Len(pattern)
                 /\ \A i \in 1..Len(pattern) :
                        fnmatch(f[Len(folder) + i], pattern[i])}}

two_layer_glob(folder, pattern) ==
    glob(folder, pattern) \cup glob(folder, <<"*">> \o pattern)

\* the calls two_layer_glob makes
two_layer_calls(folder, pattern) ==
    {<<folder, pattern>>, <<folder, <<"*">> \o pattern>>}

name(p) == p[Len(p)]

\* list[0] of a list of length one
first(list) == CHOOSE p \in list : TRUE

(***************************************************************************)
(* The lookup functions.  Each returns a record: the function's result     *)
(* (path or found), whether it raised, what it printed (out, err) and the  *)
(* file-system calls it made (calls).                                      *)
(***************************************************************************)
find_pack(pack_name) ==
    UNION {glob(lib_path_list[i], <<pack_name>>) : i \in 1..Len(lib_path_list)}

find_pack_calls(pack_name) ==
    {<<lib_path_list[i], <<pack_name>>>> : i \in 1..Len(lib_path_list)}

find_device_pack_path ==
    LET board_pack_name == board_get("device_pack", NoneStr)
        product_line_pack_name == "device_path_" \o product_line
        board_pack_name_list == find_pack(board_pack_name)
        product_line_name_pack_list == find_pack(product_line_pack_name)
        list_len == Cardinality(product_line_name_pack_list)
        board_calls == IF board_pack_name # NoneStr
                       THEN find_pack_calls(board_pack_name) ELSE {}
        all_calls == board_calls \cup find_pack_calls(product_line_pack_name)
    IN  IF board_pack_name # NoneStr /\ ~(Cardinality(board_pack_name_list) <= 0)
        THEN \* the assert of line 115 fails
             [raised |-> TRUE, path |-> None, out |-> <<>>, calls |-> board_calls]
        ELSE IF board_pack_name # NoneStr /\ Cardinality(board_pack_name_list) = 1
        THEN [raised |-> FALSE, path |-> first(board_pack_name_list),
              out |-> <<>>, calls |-> board_calls]
        ELSE IF ~(list_len < 2)
        THEN \* the assert of line 122 fails
             [raised |-> TRUE, path |-> None, out |-> <<>>, calls |-> all_calls]
        ELSE IF list_len = 0
        THEN [raised |-> FALSE, path |-> None,
              out |-> <<"?-> Device pack [ " \o product_line_pack_name \o " ] not found.">>,
              calls |-> all_calls]
        ELSE [raised |-> FALSE, path |-> first(product_line_name_pack_list),
              out |-> <<>>, calls |-> all_calls]

find_header_path_in_device_pack(pack_dir) ==
    LET include_list == board_get("device_include", <<>>)
    IN  IF Len(include_list) = 0
        THEN <<>>
        ELSE [i \in 1..Len(include_list) |-> pack_dir \o <<include_list[i]>>]

find_svd_file_path(pack_dir) ==
    LET name1 == board_get("debug.svd_name", NoneStr)
        name2 == IF name1 = NoneStr THEN board_get("debug.svd_path", NoneStr) ELSE name1
        svd_name == IF name2 = NoneStr THEN product_line \o ".svd" ELSE name2
        svd_in_misc == project_misc \o <<svd_name>>
        all_svd == two_layer_glob(pack_dir, <<"SVD", "*.svd">>)
        target_svd == {f \in all_svd : name(f) = svd_name}
        probe == {<<svd_in_misc, <<>>>>}
        calls == probe \cup two_layer_calls(pack_dir, <<"SVD", "*.svd">>)
    IN  IF exists(svd_in_misc)
        THEN [path |-> svd_in_misc, calls |-> probe]
        ELSE IF pack_dir = None
        THEN [path |-> None, calls |-> probe]
        ELSE IF Cardinality(target_svd) = 1
        THEN [path |-> first(target_svd), calls |-> calls]
        ELSE [path |-> None, calls |-> calls]

\* find_ldscript_file_path searching the pack before misc
find_ldscript_file_path_PackFirst(pack_dir) ==
    LET name1 == board_get("build.ldscript", NoneStr)
        ld_name == IF name1 = NoneStr THEN product_line \o ".ld" ELSE name1
        ld_in_misc == project_misc \o <<ld_name>>
        all_ld == two_layer_glob(pack_dir, <<"Ldscript", "*.ld">>)
        target_ld == {f \in all_ld : name(f) = ld_name}
        probe == {<<ld_in_misc, <<>>>>}
        calls == probe \cup two_layer_calls(pack_dir, <<"Ldscript", "*.ld">>)
    IN  IF pack_dir # None /\ Cardinality(target_ld) = 1
        THEN [path |-> first(target_ld), calls |-> calls]
        ELSE IF exists(ld_in_misc)
        THEN [path |-> ld_in_misc, calls |-> probe]
        ELSE [path |-> None, calls |-> probe]

find_ldscript_file_path(pack_dir) ==
    LET name1 == board_get("build.ldscript", NoneStr)
        ld_name == IF name1 = NoneStr THEN product_line \o ".ld" ELSE name1
        ld_in_misc == project_misc \o <<ld_name>>
        all_ld == two_layer_glob(pack_dir, <<"Ldscript", "*.ld">>)
        target_ld == {f \in all_ld : name(f) = ld_name}
        probe == {<<ld_in_misc, <<>>>>}
        calls == probe \cup two_layer_calls(pack_dir, <<"Ldscript", "*.ld">>)
    IN  IF exists(ld_in_misc)
        THEN [path |-> ld_in_misc, calls |-> probe]
        ELSE IF pack_dir = None
        THEN [path |-> None, calls |-> probe]
        ELSE IF Cardinality(target_ld) = 1
        THEN [path |-> first(target_ld), calls |-> calls]
        ELSE [path |-> None, calls |-> calls]

\* find_source_file_in_device_pack taking the first of several matches
find_source_file_in_device_pack_PickFirst(pack_dir, parent, file_name) ==
    LET result == two_layer_glob(pack_dir, <<parent, file_name>>)
        result_len == Cardinality(result)
        calls == two_layer_calls(pack_dir, <<parent, file_name>>)
    IN  IF result_len = 0
        THEN [path |-> None, out |-> <<>>, err |-> <<>>, calls |-> calls]
        ELSE [path |-> first(result),
              out |-> <<"--> Found source file " \o file_name \o " in device pack.">>,
              err |-> <<>>, calls |-> calls]

find_source_file_in_device_pack(pack_dir, parent, file_name) ==
    LET result == two_layer_glob(pack_dir, <<parent, file_name>>)
        result_len == Cardinality(result)
        calls == two_layer_calls(pack_dir, <<parent, file_name>>)
    IN  IF result_len = 0
        THEN [path |-> None, out |-> <<>>, err |-> <<>>, calls |-> calls]
        ELSE IF result_len = 1
        THEN [path |-> first(result),
              out |-> <<"--> Found source file " \o file_name \o " in device pack.">>,
              err |-> <<>>, calls |-> calls]
        ELSE [path |-> None, out |-> <<>>,
              err |-> <<"!-> Found multiple file " \o file_name \o " in device pack. Discard.">>,
              calls |-> calls]

find_source_file_in_src(file_name) ==
    LET result == two_layer_glob(project_src, <<file_name>>)
        result_len == Cardinality(result)
        calls == two_layer_calls(project_src, <<file_name>>)
    IN  IF result_len > 0
        THEN [found |-> TRUE, out |-> <<>>, calls |-> calls]
        ELSE [found |-> FALSE,
              out |-> <<"--> No file " \o file_name \o " in src.">>,
              calls |-> calls]

get_startup_file_name ==
    board_get("build.startup_file", "startup_" \o product_line \o ".[sS]")

get_system_file_name ==
    board_get("build.system_file", "system_" \o product_line \o ".c")

\* str.removeprefix, on path components
removeprefix(p, prefix) ==
    IF IsPrefix(prefix, p) THEN SubSeq(p, Len(prefix) + 1, Len(p)) ELSE p

\* the components of a path joined by "/"
RECURSIVE join(_)
join(p) ==
    IF Len(p) = 0 THEN ""
    ELSE IF Len(p) = 1 THEN p[1]
    ELSE p[1] \o "/" \o join(Tail(p))

\* Path.resolve().as_posix() and str(Path.resolve()) of an absolute path
as_posix(p) == "/" \o join(p)

get_relative_path_to_device_pack(file_path) ==
    IF IsPrefix(pack, file_path) /\ Len(file_path) > Len(pack)
    THEN join(removeprefix(file_path, pack))
    ELSE as_posix(file_path)

\* the arguments of the env.BuildSources call
build_source_file_in_device_pack(file_path) ==
    [variant_dir |-> "$BUILD_DIR/SourceInDevicePack",
     src_dir |-> as_posix(pack),
     src_filter |-> <<"-<*>", "+<" \o get_relative_path_to_device_pack(file_path) \o ">">>]

(***************************************************************************)
(* The script's module-level statements, in order.                         *)
(***************************************************************************)

\* lines 246-251: clear the frameworks, find the device pack
FindDevicePackStep ==
    /\ pc = "start"
    /\ LET r == find_device_pack_path
       IN  /\ board' = board_update("frameworks", <<>>)
           /\ searched' = searched \cup r.calls
           /\ stdout' = stdout \o r.out
           /\ pack' = r.path
           /\ IF r.raised
              THEN pc' = "failed" /\ error' = "AssertionError"
              ELSE pc' = "ldscript" /\ error' = error
    /\ UNCHANGED <<fs, manifest, ld_path, svd_path, src_found, pack_source,
                   env, built, stderr>>

\* LdscriptStep without the raise: a missing linker script is only reported
LdscriptStep_NoRaise ==
    /\ pc = "ldscript"
    /\ LET r == find_ldscript_file_path(pack)
       IN  /\ ld_path' = r.path
           /\ searched' = searched \cup r.calls
           /\ IF r.path = None
              THEN /\ stderr' = stderr \o <<"!-> Ldscript file not found.">>
                   /\ env' = env
              ELSE /\ env' = [env EXCEPT !.LDSCRIPT_PATH = as_posix(r.path)]
                   /\ stderr' = stderr
    /\ pc' = "svd"
    /\ UNCHANGED <<fs, manifest, board, error, pack, svd_path, src_found,
                   pack_source, built, stdout>>

\* lines 256-261: the linker script, or ValueError
LdscriptStep ==
    /\ pc = "ldscript"
    /\ LET r == find_ldscript_file_path(pack)
       IN  /\ ld_path' = r.path
           /\ searched' = searched \cup r.calls
           /\ IF r.path = None
              THEN /\ stderr' = stderr \o <<"!-> Ldscript file not found.">>
                   /\ error' = "ValueError"
                   /\ pc' = "failed"
                   /\ env' = env
              ELSE /\ env' = [env EXCEPT !.LDSCRIPT_PATH = as_posix(r.path)]
                   /\ pc' = "svd"
                   /\ UNCHANGED <<stderr, error>>
    /\ UNCHANGED <<fs, manifest, board, pack, svd_path, src_found, pack_source,
                   built, stdout>>

\* SvdStep writing debug.svd_path whatever the lookup returned
SvdStep_AlwaysUpdates ==
    /\ pc = "svd"
    /\ LET r == find_svd_file_path(pack)
       IN  /\ svd_path' = r.path
           /\ searched' = searched \cup r.calls
           /\ stderr' = IF r.path = None
                        THEN stderr \o
                             <<"!-> SVD file not found. Debug feature may not work.">>
                        ELSE stderr
           /\ board' = board_update("debug.svd_path", as_posix(r.path))
    /\ pc' = "headers"
    /\ UNCHANGED <<fs, manifest, error, pack, ld_path, src_found, pack_source,
                   env, built, stdout>>

\* lines 266-270: the SVD file overrides the board's debug.svd_path
SvdStep ==
    /\ pc = "svd"
    /\ LET r == find_svd_file_path(pack)
       IN  /\ svd_path' = r.path
           /\ searched' = searched \cup r.calls
           /\ IF r.path = None
              THEN /\ stderr' = stderr \o
                          <<"!-> SVD file not found. Debug feature may not work.">>
                   /\ board' = board
              ELSE /\ board' = board_update("debug.svd_path", as_posix(r.path))
                   /\ stderr' = stderr
    /\ pc' = "headers"
    /\ UNCHANGED <<fs, manifest, error, pack, ld_path, src_found, pack_source,
                   env, built, stdout>>

\* lines 275-285: the pack's include directories, the link flags
HeaderStep ==
    /\ pc = "headers"
    /\ LET header_path_list == IF pack # None
                               THEN find_header_path_in_device_pack(pack)
                               ELSE <<>>
           paths == [i \in 1..Len(header_path_list) |-> as_posix(header_path_list[i])]
       IN  env' = [env EXCEPT
                      !.CPPPATH = IF Len(header_path_list) > 0 THEN @ \o paths ELSE @,
                      !.LINKFLAGS = @ \o <<"--specs=nano.specs", "--specs=nosys.specs">>]
    /\ pc' = "startup"
    /\ UNCHANGED <<fs, manifest, board, error, pack, ld_path, svd_path, src_found,
                   pack_source, built, stdout, stderr, searched>>

\* StartupStep searching the pack whether or not the flag is set
StartupStep_IgnoresFlag ==
    /\ pc = "startup"
    /\ LET startup_name == get_startup_file_name
           s == find_source_file_in_src(startup_name)
           p == find_source_file_in_device_pack(pack, "Startup", startup_name)
       IN  /\ src_found' = [src_found EXCEPT !.startup = s.found]
           /\ IF s.found
              THEN /\ pack_source' = [pack_source EXCEPT !.startup = None]
                   /\ stdout' = stdout \o s.out
                   /\ stderr' = stderr
                   /\ searched' = searched \cup s.calls
              ELSE IF pack # None
              THEN /\ pack_source' = [pack_source EXCEPT !.startup = p.path]
                   /\ stdout' = stdout \o s.out \o p.out
                   /\ stderr' = stderr \o p.err
                   /\ searched' = searched \cup s.calls \cup p.calls
              ELSE /\ pack_source' = [pack_source EXCEPT !.startup = None]
                   /\ stdout' = stdout \o s.out
                   /\ stderr' = stderr \o
                          <<"!-> Startup file not found. Ignore this if it's ok.">>
                   /\ searched' = searched \cup s.calls
    /\ pc' = "system"
    /\ UNCHANGED <<fs, manifest, board, error, pack, ld_path, svd_path, env, built>>

\* lines 290-297: the startup file
StartupStep ==
    /\ pc = "startup"
    /\ LET startup_name == get_startup_file_name
           s == find_source_file_in_src(startup_name)
           p == find_source_file_in_device_pack(pack, "Startup", startup_name)
       IN  /\ src_found' = [src_found EXCEPT !.startup = s.found]
           /\ IF s.found
              THEN /\ pack_source' = [pack_source EXCEPT !.startup = None]
                   /\ stdout' = stdout \o s.out
                   /\ stderr' = stderr
                   /\ searched' = searched \cup s.calls
              ELSE IF board_get("build.use_device_pack_startup", FALSE) /\ pack # None
              THEN /\ pack_source' = [pack_source EXCEPT !.startup = p.path]
                   /\ stdout' = stdout \o s.out \o p.out
                   /\ stderr' = stderr \o p.err
                   /\ searched' = searched \cup s.calls \cup p.calls
              ELSE /\ pack_source' = [pack_source EXCEPT !.startup = None]
                   /\ stdout' = stdout \o s.out
                   /\ stderr' = stderr \o
                          <<"!-> Startup file not found. Ignore this if it's ok.">>
                   /\ searched' = searched \cup s.calls
    /\ pc' = "system"
    /\ UNCHANGED <<fs, manifest, board, error, pack, ld_path, svd_path, env, built>>

\* lines 301-308: the system file
SystemStep ==
    /\ pc = "system"
    /\ LET system_name == get_system_file_name
           s == find_source_file_in_src(system_name)
           p == find_source_file_in_device_pack(pack, "SystemSource", system_name)
       IN  /\ src_found' = [src_found EXCEPT !.system = s.found]
           /\ IF s.found
              THEN /\ pack_source' = [pack_source EXCEPT !.system = None]
                   /\ stdout' = stdout \o s.out
                   /\ stderr' = stderr
                   /\ searched' = searched \cup s.calls
              ELSE IF board_get("build.use_device_pack_system", FALSE) /\ pack # None
              THEN /\ pack_source' = [pack_source EXCEPT !.system = p.path]
                   /\ stdout' = stdout \o s.out \o p.out
                   /\ stderr' = stderr \o p.err
                   /\ searched' = searched \cup s.calls \cup p.calls
              ELSE /\ pack_source' = [pack_source EXCEPT !.system = None]
                   /\ stdout' = stdout \o s.out
                   /\ stderr' = stderr \o
                          <<"!-> System file not found. Ignore this if it's ok.">>
                   /\ searched' = searched \cup s.calls
    /\ pc' = "build"
    /\ UNCHANGED <<fs, manifest, board, error, pack, ld_path, svd_path, env, built>>

\* lines 333-339: compile the sources taken from the pack
BuildStep ==
    /\ pc = "build"
    /\ built' = built
            \o (IF pack_source.startup # None
                THEN <<build_source_file_in_device_pack(pack_source.startup)>>
                ELSE <<>>)
            \o (IF pack_source.system # None
                THEN <<build_source_file_in_device_pack(pack_source.system)>>
                ELSE <<>>)
    /\ pc' = "done"
    /\ UNCHANGED <<fs, manifest, board, error, pack, ld_path, svd_path, src_found,
                   pack_source, env, stdout, stderr, searched>>

Next ==
    \/ FindDevicePackStep
    \/ LdscriptStep
    \/ SvdStep
    \/ HeaderStep
    \/ StartupStep
    \/ SystemStep
    \/ BuildStep

(***************************************************************************)
(* The inputs: the file systems and board manifests explored.              *)
(*                                                                         *)
(* A file system is made of the pack directories installed under the lib   *)
(* roots (directly, or one folder deeper), the files inside a pack (every  *)
(* installed pack holds the same files) and the project's own files.       *)
(***************************************************************************)
RECURSIVE SubsetsUpTo(_, _)
SubsetsUpTo(S, k) ==
    IF k = 0 THEN {{}}
    ELSE LET smaller == SubsetsUpTo(S, k - 1)
         IN  smaller \cup {s \cup {e} : s \in smaller, e \in S}

documented_pack_name == "device_pack_" \o product_line

PackNames == {documented_pack_name, "device_path_" \o product_line, "mypack"}

PackDirUniverse ==
    {lib_path_list[i] \o <<n>> : i \in 1..Len(lib_path_list), n \in PackNames}
    \cup {lib_path_list[1] \o <<"vendor", n>> : n \in PackNames}

PackFileUniverse ==
    {<<"Ldscript", "PL.ld">>, <<"gcc", "Ldscript", "PL.ld">>,
     <<"SVD", "PL.svd">>, <<"gcc", "SVD", "PL.svd">>,
     <<"Startup", "startup_PL.s">>, <<"gcc", "Startup", "startup_PL.S">>,
     <<"SystemSource", "system_PL.c">>, <<"gcc", "SystemSource", "system_PL.c">>}

ProjectFileUniverse ==
    {project_misc \o <<"PL.ld">>,
     project_src \o <<"startup_PL.s">>, project_src \o <<"boot", "startup_PL.S">>,
     project_src \o <<"system_PL.c">>, project_src \o <<"boot", "system_PL.c">>,
     project_src \o <<"boot", "deep", "startup_PL.s">>}

OverridePackFiles ==
    {<<"Ldscript", "custom.ld">>, <<"Ldscript", "other.ld">>, <<"SVD", "PL.svd">>,
     <<"SVD", "custom.svd">>, <<"SVD", "old.svd">>, <<"gcc", "SVD", "old.svd">>,
     <<"Startup", "boot.s">>}

OverrideProjects ==
    {{}, {project_misc \o <<"PL.ld">>}, {project_misc \o <<"custom.ld">>},
     {project_misc \o <<"PL.ld">>, project_misc \o <<"old.svd">>},
     {project_misc \o <<"PL.ld">>, project_misc \o <<"PL.svd">>}}

FileSystem(dirs, content, project) ==
    dirs \cup {d \o c : d \in dirs, c \in content} \cup project

the_pack == lib_path_list[1] \o <<"device_path_" \o product_line>>

NoKeys == [k \in {} |-> k]
Setting(key, values) == {NoKeys} \cup {key :> v : v \in values}
BaseManifest == ("build.product_line" :> product_line) @@ ("frameworks" :> <<"cmsis">>)

\* pack discovery: any installed pack directories, with or without device_pack
PackInputs ==
    {[fs |-> FileSystem(dirs, content, project), manifest |-> BaseManifest @@ dp] :
        dirs \in SubsetsUpTo(PackDirUniverse, MaxPacks),
        content \in {{}, {<<"Ldscript", "PL.ld">>}},
        project \in {{}, {project_misc \o <<"PL.ld">>}},
        dp \in Setting("device_pack", {"mypack"})}

\* file lookups under the default names: any pack files and project files
FileInputs ==
    {[fs |-> FileSystem(dirs, content, project),
      manifest |-> BaseManifest @@ ("device_include" :> <<"Include">>) @@ f1 @@ f2] :
        dirs \in {{}, {the_pack}},
        content \in SubsetsUpTo(PackFileUniverse, MaxPackFiles),
        project \in SubsetsUpTo(ProjectFileUniverse, MaxProjectFiles),
        f1 \in Setting("build.use_device_pack_startup", {TRUE}),
        f2 \in Setting("build.use_device_pack_system", {TRUE})}

\* file lookups under names the manifest sets
OverrideInputs ==
    {[fs |-> FileSystem({the_pack}, content, project),
      manifest |-> BaseManifest @@ ("build.use_device_pack_startup" :> TRUE)
                   @@ k1 @@ k2 @@ k3 @@ k4 @@ k5] :
        content \in SubsetsUpTo(OverridePackFiles, 2),
        project \in OverrideProjects,
        k1 \in Setting("build.ldscript", {"custom.ld"}),
        k2 \in Setting("debug.svd_name", {"custom.svd"}),
        k3 \in Setting("debug.svd_path", {"old.svd"}),
        k4 \in Setting("build.startup_file", {"boot.s"}),
        k5 \in Setting("device_include", {<<"Include", "CMSIS">>})}

Inputs == PackInputs \cup FileInputs \cup OverrideInputs

Init ==
    /\ \E in \in Inputs : fs = in.fs /\ manifest = in.manifest
    /\ board = manifest
    /\ pc = "start"
    /\ error = "none"
    /\ pack = None
    /\ ld_path = None
    /\ svd_path = None
    /\ src_found = [startup |-> FALSE, system |-> FALSE]
    /\ pack_source = [startup |-> None, system |-> None]
    /\ env = [LDSCRIPT_PATH |-> NoneStr, CPPPATH |-> <<>>, LINKFLAGS |-> <<>>]
    /\ built = <<>>
    /\ stdout = <<>>
    /\ stderr = <<>>
    /\ searched = {}

Spec == Init /\ [][Next]_vars

(***************************************************************************)
(* Vocabulary of the properties: what the inputs hold, stated on the file  *)
(* system and the manifest, and what a run has done, stated on its         *)
(* effects.                                                                *)
(***************************************************************************)
Kinds == {"startup", "system"}

manifest_get(key, default) ==
    IF key \in DOMAIN manifest THEN manifest[key] ELSE default

\* the file names wanted
ld_wanted == manifest_get("build.ldscript", product_line \o ".ld")

svd_wanted ==
    manifest_get("debug.svd_name",
                 manifest_get("debug.svd_path", product_line \o ".svd"))

source_pattern(kind) ==
    IF kind = "startup"
    THEN manifest_get("build.startup_file", "startup_" \o product_line \o ".[sS]")
    ELSE manifest_get("build.system_file", "system_" \o product_line \o ".c")

source_wanted(kind) ==
    IF kind = "startup"
    THEN IF "build.startup_file" \in DOMAIN manifest
         THEN {manifest["build.startup_file"]}
         ELSE {"startup_" \o product_line \o ".s", "startup_" \o product_line \o ".S"}
    ELSE {manifest_get("build.system_file", "system_" \o product_line \o ".c")}

pack_folder(kind) == IF kind = "startup" THEN "Startup" ELSE "SystemSource"

pack_flag(kind) ==
    IF kind = "startup"
    THEN manifest_get("build.use_device_pack_startup", FALSE)
    ELSE manifest_get("build.use_device_pack_system", FALSE)

\* the files of the selected pack named one of `names`, in `folder` directly
\* under the pack or one level deeper
PackFiles(folder, names) ==
    {e \in fs :
        /\ pack # None
        /\ IsPrefix(pack, e)
        /\ \/ Len(e) = Len(pack) + 2 /\ e[Len(pack) + 1] = folder
           \/ Len(e) = Len(pack) + 3 /\ e[Len(pack) + 2] = folder
        /\ e[Len(e)] \in names}

\* the files of the project's src folder named one of `names`, directly in
\* src or one level deeper
SrcFiles(names) ==
    {e \in fs :
        /\ IsPrefix(project_src, e)
        /\ Len(e) \in {Len(project_src) + 1, Len(project_src) + 2}
        /\ e[Len(e)] \in names}

InMisc(file) == project_misc \o <<file>> \in fs

\* the lookups a run has made
LdLookedUp == <<project_misc \o <<ld_wanted>>, <<>>>> \in searched
SvdLookedUp == <<project_misc \o <<svd_wanted>>, <<>>>> \in searched
SourceLookedUp(kind) == <<project_src, <<source_pattern(kind)>>>> \in searched
PackSearched(folder) ==
    \E c \in searched : \E i \in 1..Len(c[2]) : c[2][i] = folder

SvdKey(b) == IF "debug.svd_path" \in DOMAIN b THEN b["debug.svd_path"] ELSE NoneStr

Written(stream, lines) == \E i \in 1..Len(stream) : stream[i] \in lines

\* the env.BuildSources call that compiles file f of the pack
RegistrationOf(f) ==
    [variant_dir |-> "$BUILD_DIR/SourceInDevicePack",
     src_dir |-> as_posix(pack),
     src_filter |-> <<"-<*>", "+<" \o join(SubSeq(f, Len(pack) + 1, Len(f))) \o ">">>]

Registered(kind) ==
    \E i \in 1..Len(built) :
        \E f \in PackFiles(pack_folder(kind), source_wanted(kind)) :
            built[i] = RegistrationOf(f)

\* nothing has been registered with the build
NoArtifacts ==
    /\ env.LDSCRIPT_PATH = NoneStr
    /\ SvdKey(board) = SvdKey(manifest)
    /\ env.CPPPATH = <<>>
    /\ built = <<>>

(***************************************************************************)
(* C1.  Whenever the linker-script lookup finds no file (the wanted name   *)
(* is not in misc, and there is no pack or the pack's Ldscript folder      *)
(* holds no match), the run ends in a fatal error and nothing has been     *)
(* registered: LDSCRIPT_PATH unset, debug.svd_path as in the manifest, no  *)
(* include directory appended, no source registered.                       *)
(***************************************************************************)
C1_NoLdscriptIsFatal ==
    (/\ LdLookedUp
     /\ ~InMisc(ld_wanted)
     /\ pack = None \/ PackFiles("Ldscript", {ld_wanted}) = {})
    => (pc = "failed" /\ error = "ValueError" /\ NoArtifacts)

C1_Witness ==
    /\ LdLookedUp
    /\ ~InMisc(ld_wanted)
    /\ pack # None
    /\ PackFiles("Ldscript", {ld_wanted}) = {}
    /\ PackFiles("Startup", source_wanted("startup")) # {}
    /\ "device_include" \in DOMAIN manifest
    /\ pc = "failed"

(***************************************************************************)
(* C2.  Precedence: when the wanted file is in the project tree (misc for  *)
(* the linker script and the SVD file, src for the startup and system      *)
(* files), the result is the project copy and the pack is not searched     *)
(* for that artifact, whatever the pack holds and whatever the             *)
(* use_device_pack flags say; no pack source is registered for it.         *)
(***************************************************************************)
C2_ProjectCopyWins ==
    /\ (LdLookedUp /\ InMisc(ld_wanted)) =>
            /\ ld_path = project_misc \o <<ld_wanted>>
            /\ env.LDSCRIPT_PATH = as_posix(project_misc \o <<ld_wanted>>)
            /\ ~PackSearched("Ldscript")
    /\ (SvdLookedUp /\ InMisc(svd_wanted)) =>
            /\ svd_path = project_misc \o <<svd_wanted>>
            /\ SvdKey(board) = as_posix(project_misc \o <<svd_wanted>>)
            /\ ~PackSearched("SVD")
    /\ \A kind \in Kinds :
           (SourceLookedUp(kind) /\ SrcFiles(source_wanted(kind)) # {}) =>
                /\ src_found[kind]
                /\ pack_source[kind] = None
                /\ ~PackSearched(pack_folder(kind))
                /\ ~Registered(kind)

C2_Witness ==
    /\ pc = "done"
    /\ InMisc(ld_wanted) /\ PackFiles("Ldscript", {ld_wanted}) # {}
    /\ SrcFiles(source_wanted("startup")) # {}
    /\ pack_flag("startup")
    /\ Cardinality(PackFiles("Startup", source_wanted("startup"))) = 1

\* what the script writes to sys.stderr
LdFatal ==
    /\ pc = "failed" /\ error = "ValueError"
    /\ Written(stderr, {"!-> Ldscript file not found."})

SvdWarning ==
    Written(stderr, {"!-> SVD file not found. Debug feature may not work."})

MultipleWarning(kind) ==
    Written(stderr, {"!-> Found multiple file " \o source_pattern(kind)
                        \o " in device pack. Discard."})

NotFoundWarning(kind) ==
    Written(stderr, {IF kind = "startup"
                     THEN "!-> Startup file not found. Ignore this if it's ok."
                     ELSE "!-> System file not found. Ignore this if it's ok."})

\* the pack lookups: two or more candidates are "not found", with a warning
\* (a fatal error for the linker script)
PackAmbiguityLaw ==
    /\ (/\ LdLookedUp /\ ~InMisc(ld_wanted)
        /\ Cardinality(PackFiles("Ldscript", {ld_wanted})) >= 2) =>
            /\ ld_path = None
            /\ env.LDSCRIPT_PATH = NoneStr
            /\ LdFatal
    /\ (/\ SvdLookedUp /\ ~InMisc(svd_wanted)
        /\ Cardinality(PackFiles("SVD", {svd_wanted})) >= 2) =>
            /\ svd_path = None
            /\ SvdKey(board) = SvdKey(manifest)
            /\ SvdWarning
    /\ \A kind \in Kinds :
           (/\ SourceLookedUp(kind) /\ SrcFiles(source_wanted(kind)) = {}
            /\ pack_flag(kind)
            /\ Cardinality(PackFiles(pack_folder(kind), source_wanted(kind))) >= 2) =>
                /\ pack_source[kind] = None
                /\ ~Registered(kind)
                /\ MultipleWarning(kind)

(***************************************************************************)
(* C3, as claimed.  Ambiguity law: for every lookup (linker script in      *)
(* pack, debug file in pack, startup file, system file), two or more       *)
(* candidates at the level being searched make that level's result "not    *)
(* found", with a warning; the src-tree level of the startup and system    *)
(* lookups included.                                                       *)
(***************************************************************************)
C3_Original ==
    /\ PackAmbiguityLaw
    /\ \A kind \in Kinds :
           (SourceLookedUp(kind) /\ Cardinality(SrcFiles(source_wanted(kind))) >= 2) =>
                /\ ~src_found[kind]
                /\ MultipleWarning(kind) \/ NotFoundWarning(kind)

(***************************************************************************)
(* C3, amended.  The ambiguity law holds for the pack lookups (linker      *)
(* script, debug file, startup file and system file in the pack): two or   *)
(* more candidates in the pack are "not found", nothing is returned or     *)
(* registered, and a warning is written (a fatal error for the linker      *)
(* script).  The src-tree lookup of the startup and system files is not    *)
(* checked for ambiguity: two or more matches there count as found in the  *)
(* project, without a warning and without a pack search.                   *)
(***************************************************************************)
C3_AmbiguityInPackOnly ==
    /\ PackAmbiguityLaw
    /\ \A kind \in Kinds :
           (SourceLookedUp(kind) /\ Cardinality(SrcFiles(source_wanted(kind))) >= 2) =>
                /\ src_found[kind]
                /\ pack_source[kind] = None
                /\ ~MultipleWarning(kind) /\ ~NotFoundWarning(kind)

C3_Witness ==
    /\ pc = "done"
    /\ SrcFiles(source_wanted("startup")) = {} /\ pack_flag("startup")
    /\ Cardinality(PackFiles("Startup", source_wanted("startup"))) >= 2
    /\ MultipleWarning("startup")
    /\ Cardinality(SrcFiles(source_wanted("system"))) >= 2
    /\ src_found["system"]

(***************************************************************************)
(* C7.  The SVD lookup is never fatal and writes the board configuration   *)
(* only on success: when the file is absent, or the pack holds two or more *)
(* files of the wanted name under SVD, the result is "not found", a        *)
(* warning is written, debug.svd_path keeps its value and the run goes on; *)
(* when exactly one file is found, debug.svd_path is its absolute path.    *)
(***************************************************************************)
C7_SvdNeverFatal ==
    /\ ~SvdLookedUp => SvdKey(board) = SvdKey(manifest)
    /\ SvdLookedUp =>
          /\ pc # "failed" /\ error = "none"
          /\ IF InMisc(svd_wanted)
             THEN SvdKey(board) = as_posix(project_misc \o <<svd_wanted>>)
             ELSE IF Cardinality(PackFiles("SVD", {svd_wanted})) = 1
             THEN \E f \in PackFiles("SVD", {svd_wanted}) :
                      svd_path = f /\ SvdKey(board) = as_posix(f)
             ELSE /\ svd_path = None
                  /\ SvdKey(board) = SvdKey(manifest)
                  /\ SvdWarning

C7_Witness ==
    /\ pc = "done"
    /\ SvdKey(manifest) = "old.svd"
    /\ Cardinality(PackFiles("SVD", {svd_wanted})) = 2
    /\ SvdKey(board) = "old.svd"
    /\ SvdWarning

(***************************************************************************)
(* C8.  Pack source registration: for the startup and the system file      *)
(* independently, a compilation is registered if and only if the file is   *)
(* absent from the project's src tree, its use_device_pack flag is set, a  *)
(* pack was selected and the pack's folder (Startup / SystemSource) holds  *)
(* exactly one matching file; the registration names that file by its      *)
(* pack-relative path, after the filter entry excluding every other        *)
(* source.  A run makes zero, one or two registrations, none for a file    *)
(* outside the pack.                                                       *)
(***************************************************************************)
Accepted(kind) ==
    /\ SrcFiles(source_wanted(kind)) = {}
    /\ pack_flag(kind)
    /\ pack # None
    /\ Cardinality(PackFiles(pack_folder(kind), source_wanted(kind))) = 1

C8_PackSourceRegistration ==
    /\ \A kind \in Kinds : Registered(kind) => Accepted(kind)
    /\ \A i \in 1..Len(built) :
           \E kind \in Kinds :
               \E f \in PackFiles(pack_folder(kind), source_wanted(kind)) :
                   built[i] = RegistrationOf(f)
    /\ pc = "done" =>
           /\ \A kind \in Kinds : Accepted(kind) => Registered(kind)
           /\ Len(built) = Cardinality({kind \in Kinds : Accepted(kind)})

C8_Witness ==
    /\ pc = "done"
    /\ Len(built) = 2
    /\ \E f \in PackFiles("Startup", source_wanted("startup")) :
           Len(f) = Len(pack) + 3 /\ built[1] = RegistrationOf(f)

(***************************************************************************)
(* C9.  Every missing startup or system file produces a warning: whenever  *)
(* the file is not in the project's src tree and no pack copy is accepted  *)
(* (also when the flag is set, a pack was selected and its folder holds no *)
(* matching file), a warning is written for that artifact and the run      *)
(* goes on without a registration for it.                                  *)
(***************************************************************************)
C9_MissingSourceWarned ==
    \A kind \in Kinds :
        (/\ SourceLookedUp(kind)
         /\ SrcFiles(source_wanted(kind)) = {}
         /\ pack_source[kind] = None) =>
            /\ MultipleWarning(kind) \/ NotFoundWarning(kind)
            /\ ~Registered(kind)
            /\ pc # "failed"

(***************************************************************************)
(* Vocabulary of pack discovery: the directories named n under the lib     *)
(* roots, directly and one folder deeper.                                  *)
(***************************************************************************)
lib_roots == {lib_path_list[i] : i \in 1..Len(lib_path_list)}

DirectPacks(n) ==
    {d \in {r \o <<n>> : r \in lib_roots} : \E e \in fs : IsPrefix(d, e)}

NestedPacks(n) ==
    UNION {{SubSeq(e, 1, Len(r) + 2) :
               e \in {f \in fs : /\ IsPrefix(r, f)
                                 /\ Len(f) >= Len(r) + 2
                                 /\ f[Len(r) + 2] = n}} : r \in lib_roots}

explicit_pack_name == manifest_get("device_pack", NoneStr)

\* device_pack is not set, or names no directory
ExplicitUnused ==
    \/ explicit_pack_name = NoneStr
    \/ DirectPacks(explicit_pack_name) \cup NestedPacks(explicit_pack_name) = {}

PackLookedUp == pc # "start"

\* only the lib roots have been searched
OnlyPackSearched == \A c \in searched : c[1] \in lib_roots

(***************************************************************************)
(* C4.  Explicit name: when the manifest sets device_pack and exactly one  *)
(* directory of that name exists under the lib roots,                      *)
(* find_device_pack_path returns that directory (it neither fails nor      *)
(* falls through to the default name) and the run goes on with it.         *)
(***************************************************************************)
C4_ExplicitPackReturned ==
    (/\ PackLookedUp
     /\ explicit_pack_name # NoneStr
     /\ Cardinality(DirectPacks(explicit_pack_name)) = 1
     /\ NestedPacks(explicit_pack_name) = {}) =>
        /\ pack \in DirectPacks(explicit_pack_name)
        /\ error # "AssertionError"

(***************************************************************************)
(* C5.  Default name: when device_pack is not set (or matches nothing),    *)
(* the directory searched for is named device_pack_<product_line>; exactly *)
(* one such directory is returned as the pack, and none gives "no pack"    *)
(* without a fatal error.                                                  *)
(***************************************************************************)
C5_DefaultPackName ==
    (PackLookedUp /\ ExplicitUnused) =>
        /\ \E c \in searched : c[1] \in lib_roots /\ c[2] = <<documented_pack_name>>
        /\ (/\ Cardinality(DirectPacks(documented_pack_name)) = 1
            /\ NestedPacks(documented_pack_name) = {}) =>
                pack \in DirectPacks(documented_pack_name)
        /\ DirectPacks(documented_pack_name) \cup NestedPacks(documented_pack_name) = {} =>
                pack = None /\ error # "AssertionError"

(***************************************************************************)
(* C6.  An ambiguous pack aborts first: when two or more directories under *)
(* the lib roots match the explicit device_pack name (or, when that is not *)
(* used, the default pack name), pack discovery fails, no later lookup has *)
(* run and nothing has been registered.                                    *)
(***************************************************************************)
C6_AmbiguousPackAborts ==
    (/\ PackLookedUp
     /\ \/ /\ explicit_pack_name # NoneStr
           /\ Cardinality(DirectPacks(explicit_pack_name)) >= 2
        \/ /\ ExplicitUnused
           /\ Cardinality(DirectPacks(documented_pack_name)) >= 2) =>
        /\ pc = "failed" /\ error = "AssertionError"
        /\ OnlyPackSearched
        /\ NoArtifacts

(***************************************************************************)
(* C10.  Pack discovery searches each lib root directly and one directory  *)
(* deeper: a directory of the wanted name that is a grandchild of a lib    *)
(* root is found and counts toward the matches (exactly one is selected,   *)
(* two or more across both levels is the ambiguous-pack failure).  The     *)
(* wanted name is device_pack when it is set and names a directory, else   *)
(* the default name the locator looks for.                                 *)
(***************************************************************************)
WantedPackNames ==
    IF ~ExplicitUnused
    THEN {explicit_pack_name}
    ELSE {c[2][1] : c \in {d \in searched : /\ d[1] \in lib_roots
                                             /\ d[2] # <<explicit_pack_name>>}}

C10_NestedPackFound ==
    PackLookedUp =>
        \A n \in WantedPackNames :
            NestedPacks(n) # {} =>
                IF Cardinality(DirectPacks(n) \cup NestedPacks(n)) = 1
                THEN pack \in NestedPacks(n)
                ELSE pc = "failed" /\ error = "AssertionError"

====
